---- MODULE Spec2Model ----
(***************************************************************************)
(* Magic Christmas Tree: the gather/scatter transition state machine, the   *)
(* hand-gesture handler and the gesture classifier, as state machines.      *)
(*                                                                          *)
(* Time is in milliseconds.  Date.now() is not kept as an absolute clock:   *)
(* every quantity the code derives from it is a difference (the time left   *)
(* on a timer, the time since a tween run started, currentTime -            *)
(* lastGestureTime), and the model keeps those differences, each saturated  *)
(* at the first value from which the code's comparisons no longer change.   *)
(* Landmark coordinates are in hundredths of the normalized image unit and  *)
(* are compared exactly (no floating-point rounding).                       *)
(* The canvas drawing and the button caption are not modelled.              *)
(* The snow field, init() under a given CONFIG, the scatter-position       *)
(* rejection loop and the tree-position formula are specifications of      *)
(* their own (SpecSnow, SpecConfig, SpecSphere, SpecTree), in fixed point.  *)
(***************************************************************************)
EXTENDS Integers, Sequences, FiniteSets, TLC

\* ------------------------------------------------------------- bounds
\* The step by which model time advances.
TickMs == 100
\* The number of distinct outcomes of one scatter draw (Math.random).
NumDraws == 2
\* The number of candidates one rejection loop is followed through.
MaxTries == 2
\* The number of snow operations followed in one behaviour.
MaxSnowOps == 2
\* The height, in hundredths, up to which a snow particle is followed.
MaxSnowHeight == 8100

\* -------------------------------------------------- program constants
AnimationDurationMs == 1800
StaggerMs == 2
RibbonHideMs == 300
RibbonFadeInMs == 500
GestureDebounceTime == 1000
OrnamentCount == 400
ExtraOrnaments == 100
\* Landmark thresholds, in hundredths of the normalized image unit.
ThumbThreshold == 10
FingerMargin == 2

\* Snow: lengths and velocities in hundredths of a scene unit.
Unit == 100
\* Math.random() is k / RandomDen, 0 <= k < RandomDen.
RandomDen == 100000
\* The largest integer whose square the model's integers hold.
SqrtMax == 46340
SnowInteractionRadius == 500
SnowWaveRadius == 1500
SnowSpiralRadius == 800
FieldExtent == 10000
CreateSpan == 8000
SnowFloorY == -1000
RespawnSpan == 3000
RespawnBase == 5000
FallSpan == 6
FallMin == 2
HandGain == 20
Decay == 98
WaveSamples == 200
WaveForce == 50
WaveBoost == 30
SpiralGain == 10
SpiralOsc == 5
\* cos(0.1) and sin(0.1)
Cos01 == 100
Sin01 == 10
\* CONFIG.snowCount, scaled down.
SnowCounts == {1, 2}
\* CONFIG as shipped.
SnowCount == 700
TreeHeight == 20
TreeBaseRadius == 8
ScatterRadius == 50

\* CONFIG.animationDuration * 500, the delay of the ribbon reveal.
RibbonShowDelayMs == AnimationDurationMs \div 2

\* The length of the ornament array after createOrnaments when the random
\* thinning of the top quarter drops nothing: the longest array, and so the
\* longest stagger, the program can have.
PossibleOrnamentCounts == { OrnamentCount + ExtraOrnaments }

Min(a, b) == IF a < b THEN a ELSE b
Max(a, b) == IF a > b THEN a ELSE b
Abs(a) == IF a < 0 THEN -a ELSE a

\* ------------------------------------------------ gesture classifier
fingerTips == <<4, 8, 12, 16, 20>>
fingerPIPs == <<3, 6, 10, 14, 18>>

\* Mutant: the thumb test not strict.
ThumbExtendedGe(lm) == Abs(lm[4].x - lm[0].x) >= ThumbThreshold
\* Math.abs(thumbTip.x - palmCenter.x) > 0.1, palmCenter being the wrist.
thumbExtended(lm) == Abs(lm[4].x - lm[0].x) > ThumbThreshold

\* tipY < pipY - 0.02 for the finger at (0-based) position i of the arrays.
fingerExtended(lm, i) ==
    lm[fingerTips[i + 1]].y < lm[fingerPIPs[i + 1]].y - FingerMargin

\* The loop "for (let i = 1; i < 5; i++)" with its counter.
RECURSIVE countFingers(_, _, _)
countFingers(lm, i, fingersExtended) ==
    IF i < 5
    THEN countFingers(lm, i + 1,
                      IF fingerExtended(lm, i)
                      THEN fingersExtended + 1 ELSE fingersExtended)
    ELSE fingersExtended

gestureOfCount(n) ==
    IF n >= 4 THEN "open" ELSE IF n <= 1 THEN "fist" ELSE "partial"

detectGesture(lm) ==
    gestureOfCount(countFingers(lm, 1, IF thumbExtended(lm) THEN 1 ELSE 0))

\* handTrackingState.position from landmark 9 (middle-finger MCP):
\* x = (palm.x - 0.5) * 80, y = (0.5 - palm.y) * 60, z = 20.
HandAnchor(lm) ==
    [x |-> ((lm[9].x - 50) * 80) \div 100,
     y |-> ((50 - lm[9].y) * 60) \div 100,
     z |-> 20]

\* ---------------------------------------------------- landmark inputs
\* The landmarks the code reads.  The wrist is at x = 50, every PIP joint at
\* y = 50; the thumb tip, the four finger tips and the palm centre vary.
UsedLandmarks == {0, 3, 4, 6, 8, 9, 10, 12, 14, 16, 18, 20}
MkHand(thumbX, tipYs, palm) ==
    [k \in UsedLandmarks |->
        CASE k = 0 -> [x |-> 50, y |-> 90]
          [] k = 4 -> [x |-> thumbX, y |-> 60]
          [] k = 8 -> [x |-> 50, y |-> tipYs[1]]
          [] k = 12 -> [x |-> 50, y |-> tipYs[2]]
          [] k = 16 -> [x |-> 50, y |-> tipYs[3]]
          [] k = 20 -> [x |-> 50, y |-> tipYs[4]]
          [] k = 9 -> palm
          [] OTHER -> [x |-> 50, y |-> 50]]

\* Thumb offsets around the 0.1 threshold on both sides of the wrist, and
\* tip heights around the 0.02 margin above the PIP joint.
ThumbXs == {39, 40, 41, 50, 59, 60, 61}
TipYs == {47, 48, 49, 60}
PalmLeft == [x |-> 25, y |-> 50]
AllHands ==
    { MkHand(t, <<a, b, c, d>>, PalmLeft) :
        t \in ThumbXs, a \in TipYs, b \in TipYs, c \in TipYs, d \in TipYs }

\* The frames the gesture handler is driven with: an open hand, a fist and
\* a partial hand.
SampleFrames ==
    { MkHand(61, <<47, 47, 47, 47>>, PalmLeft),
      MkHand(55, <<60, 60, 60, 60>>, PalmLeft),
      MkHand(61, <<47, 60, 60, 60>>, PalmLeft) }

\* ---------------------------------------------------------------- state
VARIABLES
    loaded,              \* init() has run (window 'load')
    numOrnaments,        \* ornaments.length
    isGathered,          \* isGathered.value
    animating,           \* animationState.animating
    btnDisabled,         \* toggleBtn.disabled
    ribbonVisible,       \* spiralRibbon.visible
    ribbonOpacity,       \* spiralRibbon.material.opacity, in percent
    starLightTarget,     \* the colour the star light is tweened to
    topStarTarget,       \* the height the top star is tweened to
    scatterDraw,         \* the draw now held in userData.scatterPosition
    treeDraw,            \* the draw held in userData.treePosition
    runs,                \* the gather/scatter tween runs, oldest first
    timers,              \* pending setTimeout and ribbon-tween callbacks
    handTrackingEnabled, \* handTrackingEnabled / handsDetector # null
    lastGesture,         \* lastGesture
    sinceLastGesture,    \* Date.now() - lastGestureTime, saturated
    detected,            \* handTrackingState.detected
    position,            \* handTrackingState.position
    gesture,             \* handTrackingState.gesture
    lastCall,            \* the handler that ran last and the calls it made
    runActs,             \* actions triggered in the current run of frames
    probe,               \* the input and the output of a function studied alone
    snowPositions,       \* snowParticles.geometry.attributes.position.array
    snowVelocities,      \* snowVelocities
    snowCall,            \* the snow operation that ran last
    snowOps              \* the number of snow operations run

chVars == <<animating, btnDisabled, ribbonVisible, ribbonOpacity,
            starLightTarget, topStarTarget, scatterDraw, treeDraw, runs,
            timers>>
handVars == <<handTrackingEnabled, lastGesture, sinceLastGesture, detected,
              position, gesture, runActs>>
snowVars == <<snowPositions, snowVelocities, snowCall, snowOps>>
vars == <<loaded, numOrnaments, isGathered, chVars, handVars, lastCall, probe,
          snowVars>>

Draws == 1 .. NumDraws

\* The first elapsed time above the debounce time on the model's time grid:
\* from there on "currentTime - lastGestureTime > gestureDebounceTime" holds.
SinceCap == GestureDebounceTime + TickMs

Call(op, g, fx) == [op |-> op, gesture |-> g, fx |-> fx]
Fx(call, at) == [call |-> call, at |-> at]
NoAnchor == [x |-> 0, y |-> 0, z |-> 0]
\* No handler whose calls matter ran last.
Idle == Call("none", "none", <<>>)

\* -------------------------------------------------------- tween runs
\* gsap.to(mesh.position, {duration, delay: index * 0.002}) for the ornament
\* at array index i, of a run started r.age ms ago.
TweenDelay(i) == i * StaggerMs
tweenState(r, i) ==
    IF r.age < TweenDelay(i) THEN "delayed"
    ELSE IF r.age < TweenDelay(i) + AnimationDurationMs THEN "running"
    ELSE "done"

\* The time from a run's start to the end of its last ornament tween.
RunSpan == TweenDelay(numOrnaments - 1) + AnimationDurationMs
RunDone(r) == r.age >= RunSpan
RunAllStarted(r) == r.age >= TweenDelay(numOrnaments - 1)

\* A finished run is forgotten once the run after it has started every one
\* of its tweens (gsap drops completed tweens; the position they left is
\* then overwritten by the next run).
RECURSIVE pruneRuns(_)
pruneRuns(rs) ==
    IF Len(rs) >= 2 /\ RunDone(rs[1]) /\ RunAllStarted(rs[2])
    THEN pruneRuns(Tail(rs))
    ELSE rs

agedRuns(rs) ==
    [k \in 1 .. Len(rs) |-> [rs[k] EXCEPT !.age = Min(@ + TickMs, RunSpan)]]

\* Where ornament i is: the target of the newest run whose tween on it has
\* started, once that tween is done; "moving" while it runs; "created" (the
\* scatter position drawn by createOrnaments) before any tween touched it.
RECURSIVE ornamentAtFrom(_, _, _)
ornamentAtFrom(rs, k, i) ==
    IF k = 0 THEN "created"
    ELSE IF tweenState(rs[k], i) = "delayed" THEN ornamentAtFrom(rs, k - 1, i)
    ELSE IF tweenState(rs[k], i) = "running" THEN "moving"
    ELSE IF rs[k].toGathered THEN "treePosition" ELSE "scatterPosition"
ornamentAt(i) == ornamentAtFrom(runs, Len(runs), i)

Ornaments == 0 .. numOrnaments - 1

\* -------------------------------------------------------------- snow
\* The snow field (createSnowSystem, updateSnowSystem, createSnowWave,
\* createSnowSpiral).  Lengths and velocities are fixed-point numbers in
\* hundredths of a scene unit, the grid standing for the precision of the
\* Float32Array the positions are stored in; Math.random() is finer, in
\* hundred-thousandths, as a double is finer than a float.  A number is an integer
\* or NaN, the result of 0 / 0.
Num(n) == [nan |-> FALSE, n |-> n]
NaN == [nan |-> TRUE, n |-> 0]

\* a / b rounded to the nearest integer, b > 0.
RoundDiv(a, b) == (2 * a + b) \div (2 * b)

fadd(a, b) == IF a.nan \/ b.nan THEN NaN ELSE Num(a.n + b.n)
fsub(a, b) == IF a.nan \/ b.nan THEN NaN ELSE Num(a.n - b.n)
fmul(a, b) == IF a.nan \/ b.nan THEN NaN ELSE Num(RoundDiv(a.n * b.n, Unit))
\* The divisors of the snow code are distances: non-negative, and zero only
\* when the dividend is zero too, which is 0 / 0.
fdiv(a, b) ==
    IF a.nan \/ b.nan \/ b.n = 0 THEN NaN ELSE Num(RoundDiv(a.n * Unit, b.n))
\* Every comparison with NaN is false.
flt(a, b) == ~a.nan /\ ~b.nan /\ a.n < b.n

\* Math.sqrt of a non-negative integer, rounded to the nearest integer.
RECURSIVE floorSqrt(_, _, _)
floorSqrt(n, lo, hi) ==
    IF lo >= hi THEN lo
    ELSE LET mid == (lo + hi + 1) \div 2
         IN IF mid * mid <= n THEN floorSqrt(n, mid, hi)
                              ELSE floorSqrt(n, lo, mid - 1)
sqrtRound(n) ==
    LET s == floorSqrt(n, 0, SqrtMax) IN IF n - s * s > s THEN s + 1 ELSE s

Vec(x, y, z) == [x |-> x, y |-> y, z |-> z]
\* Math.sqrt(dx * dx + dy * dy + dz * dz)
norm(dx, dy, dz) ==
    IF dx.nan \/ dy.nan \/ dz.nan THEN NaN
    ELSE Num(sqrtRound(dx.n * dx.n + dy.n * dy.n + dz.n * dz.n))

\* The four Math.random() values of one spawn <<x, y, z, fall>>, in
\* hundred-thousandths.
SpawnDraws ==
    { <<50000, 0, 70000, 0>>,
      <<70000, 50000, 70000, 99999>>,
      <<99999, 99999, 0, 50000>> }

\* (Math.random() - 0.5) * 100
spawnXZ(r) == Num(RoundDiv((r - RandomDen \div 2) * FieldExtent, RandomDen))
\* Math.random() * 80 - 10
createY(r) == Num(RoundDiv(r * CreateSpan, RandomDen) + SnowFloorY)
\* Math.random() * 30 + 50
respawnY(r) == Num(RoundDiv(r * RespawnSpan, RandomDen) + RespawnBase)
\* -(Math.random() * 0.06 + 0.02)
fallVelocity(r) == Num(-(RoundDiv(r * FallSpan, RandomDen) + FallMin))

createPosition(d) == Vec(spawnXZ(d[1]), createY(d[2]), spawnXZ(d[3]))
respawnPosition(d) == Vec(spawnXZ(d[1]), respawnY(d[2]), spawnXZ(d[3]))
spawnVelocity(d) == Vec(Num(0), fallVelocity(d[4]), Num(0))

Particles == DOMAIN snowPositions
SnowCall(op, origin, picks) == [op |-> op, origin |-> origin, picks |-> picks]
NoSnowCall == SnowCall("none", Vec(Num(0), Num(0), Num(0)), <<>>)
\* The snow field left out: the specifications of gather, scatter and hand
\* control do not follow the particles.
NoSnow ==
    /\ snowPositions = <<>>
    /\ snowVelocities = <<>>
    /\ snowCall = NoSnowCall
    /\ snowOps = 0

\* ------------------------------------------------------ construction
\* Module state before init(): createOrnaments left every ornament at its
\* first scatter position, createSpiralRibbon a hidden ribbon, setupLighting
\* a gold star light; no hand tracking; lastGestureTime = 0, which Date.now()
\* exceeds by more than any debounce time.
InitBase ==
    /\ loaded = FALSE
    /\ numOrnaments \in PossibleOrnamentCounts
    /\ isGathered = FALSE
    /\ animating = FALSE
    /\ btnDisabled = FALSE
    /\ ribbonVisible = FALSE
    /\ ribbonOpacity = 100
    /\ starLightTarget = "gold"
    /\ topStarTarget = "originalY"
    /\ scatterDraw = 1
    /\ treeDraw = 1
    /\ runs = <<>>
    /\ timers = {}
    /\ handTrackingEnabled = FALSE
    /\ lastGesture = "null"
    /\ sinceLastGesture = SinceCap
    /\ detected = FALSE
    /\ position = NoAnchor
    /\ gesture = "none"
    /\ lastCall = Idle
    /\ runActs = 0

Init ==
    /\ InitBase
    /\ probe = [lm |-> MkHand(50, <<60, 60, 60, 60>>, PalmLeft), out |-> "none"]
    /\ NoSnow

\* Mutant: the tween made before the new position is stored, toward the
\* position held until then.
ScatterAllStaleTarget(awaited, draw) ==
    /\ starLightTarget' = "iceBlue"
    /\ scatterDraw' = draw
    /\ runs' = Append(runs, [toGathered |-> FALSE, age |-> 0, guarded |-> awaited,
                             target |-> scatterDraw])
    /\ topStarTarget' = "scatterY"
    /\ timers' = timers \cup
          {[kind |-> "ribbonFadeOut", left |-> RibbonHideMs, awaited |-> awaited]}
    /\ UNCHANGED <<ribbonVisible, ribbonOpacity, treeDraw>>

\* ------------------------------------------------ gather and scatter
\* scatterAll: star light to ice blue, a fresh scatter position for every
\* ornament and a staggered tween to it, the top star up, and the ribbon
\* faded out over 0.3 s.  awaited: transitionState awaits the promise.
scatterAll(awaited, draw) ==
    /\ starLightTarget' = "iceBlue"
    /\ scatterDraw' = draw
    /\ runs' = Append(runs, [toGathered |-> FALSE, age |-> 0, guarded |-> awaited,
                             target |-> draw])
    /\ topStarTarget' = "scatterY"
    /\ timers' = timers \cup
          {[kind |-> "ribbonFadeOut", left |-> RibbonHideMs, awaited |-> awaited]}
    /\ UNCHANGED <<ribbonVisible, ribbonOpacity, treeDraw>>

\* gatherAll: star light to gold, a staggered tween of every ornament to its
\* tree position, the top star down, and the ribbon reveal timer.
gatherAll ==
    /\ starLightTarget' = "gold"
    /\ runs' = Append(runs, [toGathered |-> TRUE, age |-> 0, guarded |-> TRUE,
                             target |-> treeDraw])
    /\ topStarTarget' = "originalY"
    /\ timers' = timers \cup
          {[kind |-> "ribbonShow", left |-> RibbonShowDelayMs, awaited |-> TRUE]}
    /\ UNCHANGED <<ribbonVisible, ribbonOpacity, scatterDraw, treeDraw>>

\* Mutant: the button left enabled.
TransitionStateButtonOn(toGathered, draw) ==
    IF animating
    THEN UNCHANGED chVars
    ELSE /\ animating' = TRUE
         /\ btnDisabled' = btnDisabled
         /\ IF toGathered THEN gatherAll ELSE scatterAll(TRUE, draw)

\* Mutant: no re-entrancy guard.
TransitionStateUnguarded(toGathered, draw) ==
    /\ animating' = TRUE
    /\ btnDisabled' = TRUE
    /\ IF toGathered THEN gatherAll ELSE scatterAll(TRUE, draw)

\* transitionState up to its await: the guard, then gatherAll or scatterAll.
transitionState(toGathered, draw) ==
    IF animating
    THEN UNCHANGED chVars
    ELSE /\ animating' = TRUE
         /\ btnDisabled' = TRUE
         /\ IF toGathered THEN gatherAll ELSE scatterAll(TRUE, draw)

\* The draws a request can make: a scatter draws new positions, a gather
\* draws nothing.
DrawsFor(toGathered) == IF toGathered THEN {scatterDraw} ELSE Draws

\* Mutant: the initial scatter made through the guard.
InitThroughGuard ==
    /\ ~loaded
    /\ loaded' = TRUE
    /\ \E d \in Draws : transitionState(FALSE, d)
    /\ lastCall' = Call("init", "none", <<>>)
    /\ UNCHANGED <<numOrnaments, isGathered, handVars, probe, snowVars>>
\* init(): the entities exist; the initial scatter, not through the guard.
init ==
    /\ ~loaded
    /\ loaded' = TRUE
    /\ \E d \in Draws : scatterAll(FALSE, d)
    /\ lastCall' = Call("init", "none", <<>>)
    /\ UNCHANGED <<numOrnaments, isGathered, animating, btnDisabled,
                   handVars, probe, snowVars>>

\* toggleState.
toggleStateBody ==
    /\ isGathered' = ~isGathered
    /\ \E d \in DrawsFor(~isGathered) : transitionState(~isGathered, d)
    /\ lastCall' = Call("toggleState", "none", <<>>)
    /\ UNCHANGED <<loaded, numOrnaments, handVars, probe, snowVars>>

\* A click on the toggle button: a disabled button dispatches no click.
ToggleClick ==
    /\ loaded
    /\ ~btnDisabled
    /\ toggleStateBody

\* ---------------------------------------------------- timer callbacks
Due(kind) == { t \in timers : t.kind = kind /\ t.left = 0 }

\* The continuation of transitionState after its await: the timer that
\* clears the guard, animationDuration after the promise resolved.
\* Mutant: the guard cleared after the ribbon's fade time only.
ClearDelayShort == RibbonFadeInMs
clearDelay == AnimationDurationMs
\* Mutant: nothing scheduled after the await.
AfterAwaitNothing(t, toGathered) == {}
afterAwait(t, toGathered) ==
    IF t.awaited
    THEN {[kind |-> IF toGathered THEN "clearGathered" ELSE "clearScattered",
           left |-> clearDelay, awaited |-> TRUE]}
    ELSE {}

\* gatherAll's setTimeout: the ribbon shown at opacity 0, fading in.
RibbonShow ==
    \E t \in Due("ribbonShow") :
        /\ ribbonVisible' = TRUE
        /\ ribbonOpacity' = 0
        /\ timers' = (timers \ {t}) \cup
              {[kind |-> "ribbonFadeIn", left |-> RibbonFadeInMs, awaited |-> t.awaited]}
        /\ lastCall' = Idle
        /\ UNCHANGED <<loaded, numOrnaments, isGathered, animating, btnDisabled,
                       starLightTarget, topStarTarget, scatterDraw, treeDraw, runs,
                       handVars, probe, snowVars>>

\* The fade-in's onComplete: resolve.
RibbonFadeInDone ==
    \E t \in Due("ribbonFadeIn") :
        /\ ribbonOpacity' = 90
        /\ timers' = (timers \ {t}) \cup afterAwait(t, TRUE)
        /\ lastCall' = Idle
        /\ UNCHANGED <<loaded, numOrnaments, isGathered, animating, btnDisabled,
                       ribbonVisible, starLightTarget, topStarTarget, scatterDraw, treeDraw,
                       runs, handVars, probe, snowVars>>

\* Mutant: the fade-out's onComplete leaves the ribbon visible.
RibbonFadeOutStaysVisible ==
    \E t \in Due("ribbonFadeOut") :
        /\ ribbonOpacity' = 0
        /\ timers' = (timers \ {t}) \cup afterAwait(t, FALSE)
        /\ lastCall' = Idle
        /\ UNCHANGED <<loaded, numOrnaments, isGathered, animating, btnDisabled,
                       ribbonVisible, starLightTarget, topStarTarget, scatterDraw,
                       treeDraw, runs, handVars, probe, snowVars>>

\* The fade-out's onComplete: the ribbon hidden, resolve.
RibbonFadeOutDone ==
    \E t \in Due("ribbonFadeOut") :
        /\ ribbonVisible' = FALSE
        /\ ribbonOpacity' = 0
        /\ timers' = (timers \ {t}) \cup afterAwait(t, FALSE)
        /\ lastCall' = Idle
        /\ UNCHANGED <<loaded, numOrnaments, isGathered, animating, btnDisabled,
                       starLightTarget, topStarTarget, scatterDraw, treeDraw, runs,
                       handVars, probe, snowVars>>

\* transitionState's setTimeout callback: the guard cleared, the button
\* enabled again.
ClearGuard ==
    \E t \in Due("clearGathered") \cup Due("clearScattered") :
        /\ animating' = FALSE
        /\ btnDisabled' = FALSE
        /\ timers' = timers \ {t}
        /\ lastCall' = Call("clearGuard", "none", <<>>)
        /\ UNCHANGED <<loaded, numOrnaments, isGathered, ribbonVisible,
                       ribbonOpacity, starLightTarget, topStarTarget, scatterDraw, treeDraw,
                       runs, handVars, probe, snowVars>>

\* Time passes by one tick, unless a callback is due now.
Tick ==
    /\ loaded
    /\ \A t \in timers : t.left > 0
    /\ timers' = { [t EXCEPT !.left = Max(0, @ - TickMs)] : t \in timers }
    /\ runs' = pruneRuns(agedRuns(runs))
    /\ sinceLastGesture' = Min(sinceLastGesture + TickMs, SinceCap)
    /\ lastCall' = Idle
    /\ UNCHANGED <<loaded, numOrnaments, isGathered, animating, btnDisabled,
                   ribbonVisible, ribbonOpacity, starLightTarget, topStarTarget,
                   scatterDraw, treeDraw, handTrackingEnabled, lastGesture, detected,
                   position, gesture, runActs, probe, snowVars>>

\* ------------------------------------------------------ hand tracking
\* toggleHandTracking with tracking off: initHandTracking succeeds (a camera
\* that cannot start leaves everything as it was).
StartHandTracking ==
    /\ loaded
    /\ ~handTrackingEnabled
    /\ handTrackingEnabled' = TRUE
    /\ lastCall' = Idle
    /\ UNCHANGED <<loaded, numOrnaments, isGathered, chVars, lastGesture,
                   sinceLastGesture, detected, position, gesture, runActs, probe, snowVars>>

\* toggleHandTracking with tracking on: stopHandTracking.
StopHandTracking ==
    /\ handTrackingEnabled
    /\ handTrackingEnabled' = FALSE
    /\ lastGesture' = "null"
    /\ detected' = FALSE
    /\ runActs' = 0
    /\ lastCall' = Idle
    /\ UNCHANGED <<loaded, numOrnaments, isGathered, chVars, sinceLastGesture,
                   position, gesture, probe, snowVars>>

\* onHandResults without landmarks.
NoHandFrame ==
    /\ handTrackingEnabled
    /\ detected' = FALSE
    /\ lastCall' = Call("onHandResults", "none", <<>>)
    /\ UNCHANGED <<loaded, numOrnaments, isGathered, chVars, handTrackingEnabled,
                   lastGesture, sinceLastGesture, position, gesture, runActs, probe, snowVars>>

\* Mutant: the spiral only on the first frame of a fist.
SpiralCallsOnChange(g, anchor) ==
    IF g = "fist" /\ g # lastGesture THEN <<Fx("spiral", anchor)>> ELSE <<>>
\* if (gesture === 'fist') createSnowSpiral(..., handTrackingState.position)
spiralCalls(g, anchor) ==
    IF g = "fist" THEN <<Fx("spiral", anchor)>> ELSE <<>>

\* Mutants: the action block entered without the time test, and without
\* the comparison with lastGesture.
GestureChangedNoDebounce(g) == g # lastGesture
GestureChangedNoCompare(g) == sinceLastGesture > GestureDebounceTime
\* gesture !== lastGesture && currentTime - lastGestureTime > gestureDebounceTime
gestureChanged(g) ==
    g # lastGesture /\ sinceLastGesture > GestureDebounceTime

\* The three branches of the action block, in the order they are tested.
\* Mutant: the gather branch entered whatever the guard.
GatherBranchAnyTime(g) == g = "fist" /\ ~isGathered
gatherBranch(g) == g = "fist" /\ ~isGathered /\ ~animating
\* Mutant: the scatter branch testing the flag the wrong way round.
ScatterBranchInverted(g) == g = "open" /\ ~isGathered /\ ~animating
scatterBranch(g) == g = "open" /\ isGathered /\ ~animating
waveBranch(g) == g = "open"

\* The discrete actions among the calls of a handler.
IsAction(c) == c.call \in {"gather", "scatter", "wave"}
Actions(fx) == SelectSeq(fx, IsAction)

\* The run of same-classified frames goes on when the frame is classified
\* as the last one was.  A frame that triggers counts once (a scatter request
\* and the wave that goes with it are one trigger); the count stops at 2.
runActsAfter(g, fx) ==
    Min(2, (IF Actions(fx) # <<>> THEN 1 ELSE 0)
           + IF g = gesture THEN runActs ELSE 0)

\* onHandResults with the landmarks lm of one hand.
HandFrame(lm) ==
    LET g == detectGesture(lm)
        anchor == HandAnchor(lm)
        spiral == spiralCalls(g, anchor)
    IN
    /\ handTrackingEnabled
    /\ detected' = TRUE
    /\ position' = anchor
    /\ gesture' = g
    /\ UNCHANGED <<loaded, numOrnaments, handTrackingEnabled, probe, snowVars>>
    /\ IF gestureChanged(g)
       THEN /\ lastGesture' = g
            /\ IF gatherBranch(g)
               THEN /\ isGathered' = TRUE
                    /\ transitionState(TRUE, scatterDraw)
                    /\ sinceLastGesture' = 0
                    /\ lastCall' = Call("onHandResults", g,
                                        spiral \o <<Fx("gather", anchor)>>)
               ELSE IF scatterBranch(g)
               THEN /\ isGathered' = FALSE
                    /\ \E d \in Draws : transitionState(FALSE, d)
                    /\ sinceLastGesture' = 0
                    /\ lastCall' = Call("onHandResults", g,
                          spiral \o <<Fx("scatter", anchor), Fx("wave", anchor)>>)
               ELSE IF waveBranch(g)
               THEN /\ sinceLastGesture' = 0
                    /\ lastCall' = Call("onHandResults", g,
                                        spiral \o <<Fx("wave", anchor)>>)
                    /\ UNCHANGED <<isGathered, chVars>>
               ELSE /\ lastCall' = Call("onHandResults", g, spiral)
                    /\ UNCHANGED <<isGathered, chVars, sinceLastGesture>>
       ELSE /\ lastCall' = Call("onHandResults", g, spiral)
            /\ UNCHANGED <<isGathered, chVars, lastGesture, sinceLastGesture>>
    /\ runActs' = runActsAfter(g, lastCall'.fx)

LandmarkFrame == \E lm \in SampleFrames : HandFrame(lm)

\* ------------------------------------------------------ specifications
\* The page without hand control: the button, the callbacks and time.
NextCore ==
    \/ init
    \/ ToggleClick
    \/ RibbonShow
    \/ RibbonFadeInDone
    \/ RibbonFadeOutDone
    \/ ClearGuard
    \/ Tick

Next ==
    \/ NextCore
    \/ StartHandTracking
    \/ StopHandTracking
    \/ NoHandFrame
    \/ LandmarkFrame

Spec == Init /\ [][Next]_vars

\* The exported transition request called directly (requestGather and
\* requestScatter of the state machine are transitionState(true / false)),
\* and toggleState called whatever the button's state.  These are callers
\* the page itself does not have; they are explored without hand control,
\* whose handler never calls transitionState while the guard is set.
RequestGather ==
    /\ loaded
    /\ transitionState(TRUE, scatterDraw)
    /\ lastCall' = Call("requestGather", "none", <<>>)
    /\ UNCHANGED <<loaded, numOrnaments, isGathered, handVars, probe, snowVars>>

RequestScatter ==
    /\ loaded
    /\ \E d \in Draws : transitionState(FALSE, d)
    /\ lastCall' = Call("requestScatter", "none", <<>>)
    /\ UNCHANGED <<loaded, numOrnaments, isGathered, handVars, probe, snowVars>>

ToggleCall ==
    /\ loaded
    /\ toggleStateBody

NextApi ==
    \/ NextCore
    \/ RequestGather
    \/ RequestScatter
    \/ ToggleCall

SpecApi == Init /\ [][NextApi]_vars

\* The browser runs every due callback and time goes on.
Fairness ==
    /\ WF_vars(Tick)
    /\ WF_vars(RibbonShow)
    /\ WF_vars(RibbonFadeInDone)
    /\ WF_vars(RibbonFadeOutDone)
    /\ WF_vars(ClearGuard)

FairSpec == Spec /\ Fairness

\* The camera keeps delivering the frames of a hand that is held: a frame
\* of the held gesture that would change anything is eventually handled.
FramesOf(g) == { lm \in SampleFrames : detectGesture(lm) = g }
FistFrame == \E lm \in FramesOf("fist") : HandFrame(lm)
OpenFrame == \E lm \in FramesOf("open") : HandFrame(lm)

\* The page under a hand that shows fists and open hands only.
NextHeld ==
    \/ NextCore
    \/ StartHandTracking
    \/ FistFrame
    \/ OpenFrame

FairHeldSpec == Init /\ [][NextHeld]_vars /\ Fairness

\* detectGesture applied to one landmark set out of AllHands.
InitClassify ==
    /\ InitBase
    /\ probe \in { [lm |-> l, out |-> "none"] : l \in AllHands }
    /\ NoSnow

Classify ==
    /\ probe.out = "none"
    /\ probe' = [probe EXCEPT !.out = detectGesture(probe.lm)]
    /\ UNCHANGED <<loaded, numOrnaments, isGathered, chVars, handVars, lastCall,
                   snowVars>>

NextClassify == Classify

SpecClassify == InitClassify /\ [][NextClassify]_vars

\* createSnowSystem with snowCount particles.
InitSnow ==
    /\ InitBase
    /\ probe = [lm |-> MkHand(50, <<60, 60, 60, 60>>, PalmLeft), out |-> "none"]
    /\ \E snowCount \in SnowCounts :
         \E d \in [0 .. snowCount - 1 -> SpawnDraws] :
            /\ snowPositions = [i \in 0 .. snowCount - 1 |-> createPosition(d[i])]
            /\ snowVelocities = [i \in 0 .. snowCount - 1 |-> spawnVelocity(d[i])]
    /\ snowCall = NoSnowCall
    /\ snowOps = 0

\* One particle of updateSnowSystem: integrate, hand repulsion, decay,
\* respawn with the draw d.
integrated(p, v) == Vec(fadd(p.x, v.x), fadd(p.y, v.y), fadd(p.z, v.z))

\* Mutant: the impulse toward the hand.
RepelledToward(p, v, handPosition) ==
    LET dx == fsub(p.x, handPosition.x)
        dy == fsub(p.y, handPosition.y)
        dz == fsub(p.z, handPosition.z)
        distance == norm(dx, dy, dz)
        force == fdiv(fsub(Num(SnowInteractionRadius), distance),
                      Num(SnowInteractionRadius))
    IN IF flt(distance, Num(SnowInteractionRadius))
       THEN [v EXCEPT
               !.x = fsub(@, fmul(fmul(fdiv(dx, distance), force), Num(HandGain))),
               !.z = fsub(@, fmul(fmul(fdiv(dz, distance), force), Num(HandGain)))]
       ELSE v
repelled(p, v, handPosition) ==
    LET dx == fsub(p.x, handPosition.x)
        dy == fsub(p.y, handPosition.y)
        dz == fsub(p.z, handPosition.z)
        distance == norm(dx, dy, dz)
        force == fdiv(fsub(Num(SnowInteractionRadius), distance),
                      Num(SnowInteractionRadius))
    IN IF flt(distance, Num(SnowInteractionRadius))
       THEN [v EXCEPT
               !.x = fadd(@, fmul(fmul(fdiv(dx, distance), force), Num(HandGain))),
               !.z = fadd(@, fmul(fmul(fdiv(dz, distance), force), Num(HandGain)))]
       ELSE v

\* Mutant: no decay.
DecayedNot(v) == v
decayed(v) == [v EXCEPT !.x = fmul(@, Num(Decay)), !.z = fmul(@, Num(Decay))]

fallen(p) == flt(p.y, Num(SnowFloorY))

\* Mutant: a fallen particle put back at the floor, nothing redrawn.
StepPositionClamped(p, v, d) ==
    LET q == integrated(p, v)
    IN IF fallen(q) THEN [q EXCEPT !.y = Num(SnowFloorY)] ELSE q
stepPosition(p, v, d) ==
    LET q == integrated(p, v) IN IF fallen(q) THEN respawnPosition(d) ELSE q

stepVelocity(p, v, handDetected, handPosition, d) ==
    LET q == integrated(p, v)
        w == decayed(IF handDetected THEN repelled(q, v, handPosition) ELSE v)
    IN IF fallen(q) THEN spawnVelocity(d) ELSE w

\* The origins the forces are tried at: at given offsets from where the
\* first particle is (for a step, from where it is once integrated).
originAt(p, o) ==
    IF p.x.nan \/ p.z.nan
    THEN Vec(Num(o[1]), fadd(p.y, Num(o[2])), Num(o[3]))
    ELSE Vec(fadd(p.x, Num(o[1])), fadd(p.y, Num(o[2])), fadd(p.z, Num(o[3])))
StepOffsets == { <<0, 0, 0>>, <<300, 0, 0>>, <<500, 0, 0>> }
WaveOffsets == { <<0, 0, 0>>, <<750, 0, 0>>, <<450, 0, -600>>, <<1500, 0, 0>> }
SpiralOffsets == { <<0, 0, 0>>, <<300, 0, 400>>, <<800, 0, 0>> }

\* updateSnowSystem(snowParticles, snowVelocities, snowCount, handDetected,
\* handPosition, CONFIG): every particle stepped, in one call.
snowStep(handDetected, handPosition) ==
    /\ \E d \in [Particles -> SpawnDraws] :
         /\ \A i \in Particles :
              ~fallen(integrated(snowPositions[i], snowVelocities[i]))
              => d[i] = CHOOSE s \in SpawnDraws : TRUE
         /\ snowPositions' =
              [i \in Particles |->
                 stepPosition(snowPositions[i], snowVelocities[i], d[i])]
         /\ snowVelocities' =
              [i \in Particles |->
                 stepVelocity(snowPositions[i], snowVelocities[i],
                              handDetected, handPosition, d[i])]
    /\ snowCall' = SnowCall(IF handDetected THEN "stepHand" ELSE "step",
                            handPosition, <<>>)

\* One of the snow operations followed in a behaviour.
updateSnowSystem(handDetected, handPosition) ==
    /\ snowOps < MaxSnowOps
    /\ snowStep(handDetected, handPosition)
    /\ snowOps' = snowOps + 1
    /\ UNCHANGED <<loaded, numOrnaments, isGathered, chVars, handVars,
                   lastCall, probe>>

StepNoHand == updateSnowSystem(FALSE, Vec(Num(0), Num(0), Num(0)))
StepWithHand ==
    \E o \in StepOffsets :
       updateSnowSystem(TRUE,
          originAt(integrated(snowPositions[0], snowVelocities[0]), o))

\* One iteration of createSnowWave's loop, on the particle drawn.
\* Mutant: the impulse given whatever the distance.
WaveHitAnywhere(p, v, origin) ==
    LET dx == fsub(p.x, origin.x)
        dy == fsub(p.y, origin.y)
        dz == fsub(p.z, origin.z)
        distance == norm(dx, dy, dz)
    IN [v EXCEPT !.x = fadd(@, fmul(fdiv(dx, distance), Num(WaveForce))),
                 !.y = fadd(@, Num(WaveBoost)),
                 !.z = fadd(@, fmul(fdiv(dz, distance), Num(WaveForce)))]
waveHit(p, v, origin) ==
    LET dx == fsub(p.x, origin.x)
        dy == fsub(p.y, origin.y)
        dz == fsub(p.z, origin.z)
        distance == norm(dx, dy, dz)
    IN IF flt(distance, Num(SnowWaveRadius))
       THEN [v EXCEPT !.x = fadd(@, fmul(fdiv(dx, distance), Num(WaveForce))),
                      !.y = fadd(@, Num(WaveBoost)),
                      !.z = fadd(@, fmul(fdiv(dz, distance), Num(WaveForce)))]
       ELSE v

\* Mutant: the sample taken as a set, a particle drawn again passed over.
RECURSIVE WaveLoopDistinct(_, _, _, _)
WaveLoopDistinct(vels, picks, k, origin) ==
    IF k > Len(picks) THEN vels
    ELSE IF \E j \in 1 .. k - 1 : picks[j] = picks[k]
    THEN WaveLoopDistinct(vels, picks, k + 1, origin)
    ELSE WaveLoopDistinct([vels EXCEPT ![picks[k]] =
                              waveHit(snowPositions[picks[k]], @, origin)],
                          picks, k + 1, origin)
\* The loop of createSnowWave over the indices drawn, picks[k .. ].
RECURSIVE waveLoop(_, _, _, _)
waveLoop(vels, picks, k, origin) ==
    IF k > Len(picks) THEN vels
    ELSE waveLoop([vels EXCEPT ![picks[k]] =
                      waveHit(snowPositions[picks[k]], @, origin)],
                  picks, k + 1, origin)

\* Math.min(200, snowCount) indices, each Math.floor(Math.random() * snowCount)
wavePicks(snowCount) ==
    [1 .. Min(WaveSamples, snowCount) -> 0 .. snowCount - 1]

\* createSnowWave(snowParticles, snowVelocities, snowCount, position, CONFIG)
createSnowWave(origin) ==
    /\ snowOps < MaxSnowOps
    /\ \E picks \in wavePicks(Cardinality(Particles)) :
         /\ snowVelocities' = waveLoop(snowVelocities, picks, 1, origin)
         /\ snowCall' = SnowCall("wave", origin, picks)
    /\ snowOps' = snowOps + 1
    /\ UNCHANGED <<loaded, numOrnaments, isGathered, chVars, handVars,
                   lastCall, probe, snowPositions>>

Wave == \E o \in WaveOffsets : createSnowWave(originAt(snowPositions[0], o))

\* Mutant: the direction turned by a quarter turn, along the tangent.
SpiralCosTangent(dx, dz) ==
    LET h == norm(dx, Num(0), dz)
    IN IF h.nan THEN NaN
       ELSE IF h.n = 0 THEN Num(0)
       ELSE fsub(Num(0), fdiv(dz, h))
\* Math.cos and Math.sin of Math.atan2(dz, dx) + 0.1: the direction
\* (dx, dz) / hypot turned by 0.1 rad; atan2(0, 0) is 0.
spiralCos(dx, dz) ==
    LET h == norm(dx, Num(0), dz)
    IN IF h.nan THEN NaN
       ELSE IF h.n = 0 THEN Num(Cos01)
       ELSE fsub(fmul(fdiv(dx, h), Num(Cos01)), fmul(fdiv(dz, h), Num(Sin01)))
spiralSin(dx, dz) ==
    LET h == norm(dx, Num(0), dz)
    IN IF h.nan THEN NaN
       ELSE IF h.n = 0 THEN Num(Sin01)
       ELSE fadd(fmul(fdiv(dz, h), Num(Cos01)), fmul(fdiv(dx, h), Num(Sin01)))

\* Math.sin(time + i * 0.1) * 0.05, whatever the time.
OscValues == { -SpiralOsc, SpiralOsc }

spiralHit(p, v, origin, osc) ==
    LET dx == fsub(p.x, origin.x)
        dy == fsub(p.y, origin.y)
        dz == fsub(p.z, origin.z)
        distance == norm(dx, dy, dz)
        force == fmul(fdiv(fsub(Num(SnowSpiralRadius), distance),
                           Num(SnowSpiralRadius)), Num(SpiralGain))
    IN IF flt(distance, Num(SnowSpiralRadius))
       THEN [v EXCEPT !.x = fadd(@, fmul(spiralCos(dx, dz), force)),
                      !.z = fadd(@, fmul(spiralSin(dx, dz), force)),
                      !.y = fadd(@, Num(osc))]
       ELSE v

\* createSnowSpiral(snowParticles, snowVelocities, snowCount, position, CONFIG)
createSnowSpiral(origin) ==
    /\ snowOps < MaxSnowOps
    /\ \E osc \in [Particles -> OscValues] :
         snowVelocities' =
            [i \in Particles |->
               spiralHit(snowPositions[i], snowVelocities[i], origin, osc[i])]
    /\ snowCall' = SnowCall("spiral", origin, <<>>)
    /\ snowOps' = snowOps + 1
    /\ UNCHANGED <<loaded, numOrnaments, isGathered, chVars, handVars,
                   lastCall, probe, snowPositions>>

Spiral == \E o \in SpiralOffsets : createSnowSpiral(originAt(snowPositions[0], o))

NextSnow ==
    \/ StepNoHand
    \/ StepWithHand
    \/ Wave
    \/ Spiral

SpecSnow == InitSnow /\ [][NextSnow]_vars

\* The snow of one particle over any number of frames: the waves of the
\* gesture handler first, then animate() frame after frame without a hand.
\* A particle is followed up to MaxSnowHeight, above every height a particle
\* is created or respawned at.
InitFall == InitSnow /\ Cardinality(DOMAIN snowPositions) = 1

FirstWave == snowCall.op \in {"none", "wave"} /\ Wave

\* animate(): updateSnowSystem(..., handTrackingState.detected, ...), no hand.
Animate ==
    /\ \A i \in Particles : flt(snowPositions[i].y, Num(MaxSnowHeight))
    /\ snowStep(FALSE, Vec(Num(0), Num(0), Num(0)))
    /\ UNCHANGED <<loaded, numOrnaments, isGathered, chVars, handVars,
                   lastCall, probe, snowOps>>

NextFall ==
    \/ FirstWave
    \/ Animate

\* requestAnimationFrame keeps calling animate.
FallSpec == InitFall /\ [][NextFall]_vars /\ WF_vars(Animate)

\* ------------------------------------------------------ configuration
\* init() run with a CONFIG of which some values are not positive.  A length
\* is in scene units here, a radius of the snow forces too.
Configs ==
    [ornamentCount : {-1, 0, OrnamentCount},
     snowCount : {-1, 0, SnowCount},
     treeHeight : {-TreeHeight, 0, TreeHeight},
     treeBaseRadius : {0, TreeBaseRadius},
     scatterRadius : {-ScatterRadius, 0, ScatterRadius},
     snowWaveRadius : {0, SnowWaveRadius \div Unit}]

Outcome(result, ornaments, snow) ==
    [result |-> result, ornaments |-> ornaments, snow |-> snow]
Pending == Outcome("pending", 0, 0)

\* createOrnaments: the loop "for i < CONFIG.ornamentCount", of which
\* skipped iterations make no ornament, then the 100 extra ornaments.
\* Nothing in it reads a value to refuse it.
createOrnaments(cfg, skipped) ==
    Max(0, cfg.ornamentCount) - skipped + ExtraOrnaments

\* The iterations the thinning can skip: those of the top quarter, which a
\* tree without height does not have (y_normalized is NaN).
Skippable(cfg) ==
    IF cfg.ornamentCount > 0 /\ cfg.treeHeight # 0 THEN {0, 1} ELSE {0}

\* init(): createOrnaments, then createSnowSystem, whose
\* new Float32Array(snowCount * 3) throws a RangeError on a negative length.
initOutcome(cfg, skipped) ==
    IF cfg.snowCount < 0
    THEN Outcome("RangeError", createOrnaments(cfg, skipped), 0)
    ELSE Outcome("ok", createOrnaments(cfg, skipped), cfg.snowCount)

InitConfig ==
    /\ InitBase
    /\ NoSnow
    /\ probe \in { [cfg |-> c, out |-> Pending] : c \in Configs }

InitConfigured ==
    /\ probe.out = Pending
    /\ \E skipped \in Skippable(probe.cfg) :
         probe' = [probe EXCEPT !.out = initOutcome(probe.cfg, skipped)]
    /\ UNCHANGED <<loaded, numOrnaments, isGathered, chVars, handVars, lastCall,
                   snowVars>>

NextConfig == InitConfigured

SpecConfig == InitConfig /\ [][NextConfig]_vars

\* --------------------------------------------------- scatter position
\* calculateScatterPosition(CONFIG) and randomInSphere(radius): the same
\* rejection loop.  Coordinates in hundredths of a scene unit.
SphereRadii == { Unit, ScatterRadius * Unit }
\* The Math.random() values a candidate is made of.
SphereDraws == { 0, 10000, 25000, 50000, 75000, 99999 }

\* (Math.random() - 0.5) * 2 * radius
sphereCoordinate(r, radius) ==
    RoundDiv((r - RandomDen \div 2) * 2 * radius, RandomDen)

\* Mutant: the loop left on the first candidate outside the sphere.
RejectedInverted(c, radius) ==
    c.x * c.x + c.y * c.y + c.z * c.z <= radius * radius
\* while (x*x + y*y + z*z > radius * radius)
rejected(c, radius) ==
    c.x * c.x + c.y * c.y + c.z * c.z > radius * radius

InitSphere ==
    /\ InitBase
    /\ NoSnow
    /\ probe \in { [radius |-> r, tries |-> 0, point |-> Vec(0, 0, 0),
                    returned |-> FALSE] : r \in SphereRadii }

\* One turn of the do-while loop: a candidate, and the return if it is kept.
SphereCandidate ==
    /\ ~probe.returned
    /\ probe.tries < MaxTries
    /\ \E rx \in SphereDraws, ry \in SphereDraws, rz \in SphereDraws :
         LET c == Vec(sphereCoordinate(rx, probe.radius),
                      sphereCoordinate(ry, probe.radius),
                      sphereCoordinate(rz, probe.radius))
         IN probe' = [probe EXCEPT !.tries = @ + 1, !.point = c,
                                   !.returned = ~rejected(c, probe.radius)]
    /\ UNCHANGED <<loaded, numOrnaments, isGathered, chVars, handVars, lastCall,
                   snowVars>>

NextSphere == SphereCandidate

SpecSphere == InitSphere /\ [][NextSphere]_vars

\* ------------------------------------------------------ tree position
\* calculateTreePosition(index, total, CONFIG).  Math.pow(t, 1.7) in
\* fixed point, t in ten-thousandths: t times t to the power 0.7, the
\* latter the product of the repeated square roots of t that the binary
\* digits of 0.7 name (0.101100110011, twelve digits).
PowDen == 10000
Bits07 == <<1, 0, 1, 1, 0, 0, 1, 1, 0, 0, 1, 1>>
powSqrt(t) == sqrtRound(t * PowDen)
powMul(a, b) == RoundDiv(a * b, PowDen)
RECURSIVE powFrac(_, _, _)
powFrac(root, k, acc) ==
    IF k > Len(Bits07) THEN acc
    ELSE powFrac(powSqrt(root), k + 1,
                 IF Bits07[k] = 1 THEN powMul(acc, powSqrt(root)) ELSE acc)
pow17(t) == powMul(t, powFrac(t, 1, PowDen))

\* t_weighted = Math.pow(index / total, 1.7), in ten-thousandths.
tWeighted(index, total) == pow17(RoundDiv(index * PowDen, total))

\* Mutant: the heights dealt from the top of the tree down.
TreeYFromTop(index, total, H) ==
    (H * Unit) \div 2 - RoundDiv(tWeighted(index, total) * H * Unit, PowDen)
\* y = t_weighted * H - H / 2, in hundredths.
treeY(index, total, H) ==
    RoundDiv(tWeighted(index, total) * H * Unit, PowDen) - (H * Unit) \div 2

\* r_random: the cone's radius at that height, times a spread drawn by
\* height band (r is the Math.random() value).
treeRadius(index, total, H, r) ==
    LET y == treeY(index, total, H)
        rAtY == RoundDiv(TreeBaseRadius * Unit
                         * (PowDen - tWeighted(index, total)), PowDen)
        spread == IF y < -5 * Unit THEN 70 + RoundDiv(r * 50, RandomDen)
                  ELSE IF y > 5 * Unit THEN 85 + RoundDiv(r * 30, RandomDen)
                  ELSE 80 + RoundDiv(r * 40, RandomDen)
    IN RoundDiv(rAtY * spread, Unit)

\* <<Math.cos(theta), Math.sin(theta)>>, in hundredths, of some of the
\* angles theta = Math.random() * 2 pi.
Directions == { <<100, 0>>, <<0, 100>>, <<-60, -80>> }
RadiusDraws == { 0, 99999 }

calculateTreePosition(index, total, H, dir, r) ==
    Vec(RoundDiv(treeRadius(index, total, H, r) * dir[1], Unit),
        treeY(index, total, H),
        RoundDiv(treeRadius(index, total, H, r) * dir[2], Unit))

\* The totals the positions are computed for.
TreeTotals == { 1, 3, OrnamentCount }

InitTree ==
    /\ InitBase
    /\ NoSnow
    /\ probe \in { [total |-> n, H |-> TreeHeight, ys |-> <<>>,
                     last |-> Vec(0, 0, 0)] : n \in TreeTotals }

\* createOrnaments' loop: the position of the next index, whatever is drawn;
\* ys[k] is the height given to index k - 1, last the position just computed.
TreePositionOfNext ==
    /\ Len(probe.ys) < probe.total
    /\ \E dir \in Directions, r \in RadiusDraws :
         LET pos == calculateTreePosition(Len(probe.ys), probe.total,
                                          probe.H, dir, r)
         IN probe' = [probe EXCEPT !.ys = Append(@, pos.y), !.last = pos]
    /\ UNCHANGED <<loaded, numOrnaments, isGathered, chVars, handVars, lastCall,
                   snowVars>>

NextTree == TreePositionOfNext

SpecTree == InitTree /\ [][NextTree]_vars

\* ----------------------------------------------------------- startup
\* The page from its construction on with no input at all: the load event,
\* then only time and the callbacks the initial scatter has scheduled.  The
\* thinning of createOrnaments may have skipped some ornaments.
StartupSkipped == {0, 1, 2}
StartupCounts ==
    { createOrnaments([ornamentCount |-> OrnamentCount], k) : k \in StartupSkipped }

InitStartup ==
    /\ loaded = FALSE
    /\ numOrnaments \in StartupCounts
    /\ isGathered = FALSE
    /\ animating = FALSE
    /\ btnDisabled = FALSE
    /\ ribbonVisible = FALSE
    /\ ribbonOpacity = 100
    /\ starLightTarget = "gold"
    /\ topStarTarget = "originalY"
    /\ scatterDraw = 1
    /\ treeDraw = 1
    /\ runs = <<>>
    /\ timers = {}
    /\ handTrackingEnabled = FALSE
    /\ lastGesture = "null"
    /\ sinceLastGesture = SinceCap
    /\ detected = FALSE
    /\ position = NoAnchor
    /\ gesture = "none"
    /\ lastCall = Idle
    /\ runActs = 0
    /\ probe = [lm |-> MkHand(50, <<60, 60, 60, 60>>, PalmLeft), out |-> "none"]
    /\ NoSnow

NextStartup ==
    \/ init
    \/ RibbonFadeOutDone
    \/ Tick

StartupSpec ==
    /\ InitStartup
    /\ [][NextStartup]_vars
    /\ WF_vars(init)
    /\ WF_vars(RibbonFadeOutDone)
    /\ WF_vars(Tick)

\* ------------------------------------------------------------- claims
HasCall(fx, c) == \E k \in 1 .. Len(fx) : fx[k].call = c
LastRun == runs[Len(runs)]
\* The position tweens on ornament i that have not finished.
PendingTweens(i) == { k \in 1 .. Len(runs) : tweenState(runs[k], i) # "done" }

\* C1: at most one transition is in flight: no ornament ever has position
\* tweens of two different gather/scatter runs delayed or running at once
\* (a new run starts only after every tween of the run before it, the
\* startup scatter included, has finished).
C1_OneRunInFlight ==
    \A i \in Ornaments : Cardinality(PendingTweens(i)) <= 1

\* C2: the guard is false only after the whole guarded animation, its
\* largest stagger included, has elapsed: whenever animating is false, every
\* run started through transitionState is at least
\* (n-1) * 0.002 s + animationDuration old, so none of its tweens is still
\* delayed or running.
C2_GuardCoversStagger ==
    ~animating => \A k \in 1 .. Len(runs) : runs[k].guarded => RunDone(runs[k])

\* C3: a gather or scatter request made while the guard is set is a no-op:
\* the guard stays set and the step starts no tween, redraws no scatter
\* target and changes neither the ribbon nor the star light (nor any pending
\* callback); so a scatter request right after an accepted gather request
\* leaves the gather as it was.
C3_RejectedRequestIsNoOp ==
    [][ (animating /\ lastCall'.op \in {"requestGather", "requestScatter", "toggleState"})
        => (animating' /\ UNCHANGED <<runs, scatterDraw, ribbonVisible,
                                      ribbonOpacity, starLightTarget,
                                      topStarTarget, timers, btnDisabled>>) ]_vars

\* A scatter request was just rejected at the very start of a gather.
C3_ScatterRejectedDuringGather ==
    /\ lastCall.op = "requestScatter"
    /\ animating
    /\ runs # <<>>
    /\ LastRun.toGathered
    /\ LastRun.age = 0
    /\ starLightTarget = "gold"
    /\ \A t \in timers : t.kind = "ribbonFadeOut" => ~t.awaited

\* C4: an accepted gather ends: the guard is eventually cleared, and in the
\* step that clears it every ornament is at its tree position.
GatherInFlight == animating /\ runs # <<>> /\ LastRun.toGathered
AllAtTree == \A i \in Ornaments : ornamentAt(i) = "treePosition"
C4_GatherCompletes ==
    /\ GatherInFlight ~> ~animating
    /\ [][ (GatherInFlight /\ ~animating') => AllAtTree' ]_vars

\* The guard of a gather was just cleared with every ornament on the tree.
C4_GatherCleared ==
    /\ lastCall.op = "clearGuard"
    /\ ~animating
    /\ isGathered
    /\ AllAtTree

\* C5: a landmark frame triggers an action (gather request, scatter request
\* with its wave, or wave) only if more than gestureDebounceTime has passed
\* since lastGestureTime, and a frame that triggers sets lastGestureTime to
\* the current time; so two triggering frames are more than
\* gestureDebounceTime apart.
FrameActed(c) == c.op = "onHandResults" /\ Actions(c.fx) # <<>>
C5_ActionsDebounced ==
    [][ FrameActed(lastCall')
        => (sinceLastGesture > GestureDebounceTime /\ sinceLastGesture' = 0) ]_vars

\* A fist that would gather (scattered, idle, last gesture not a fist) was
\* classified within the debounce time of the last action and did nothing.
C5_FistHeldBackByDebounce ==
    /\ lastCall.op = "onHandResults"
    /\ lastCall.gesture = "fist"
    /\ Actions(lastCall.fx) = <<>>
    /\ lastGesture = "open"
    /\ ~isGathered
    /\ ~animating
    /\ sinceLastGesture = TickMs

\* C6: re-detecting the same gesture never triggers again: within one run
\* of landmark frames all classified the same (frames without a hand between
\* them do not end the run; stopping hand tracking does), at most one frame
\* triggers a gather request, a scatter request or a wave.
C6_OneTriggerPerRun == runActs <= 1

\* An open hand that triggered earlier in its run is seen again, long after
\* the debounce time has passed, and triggers nothing.
C6_HeldOpenSeenAgain ==
    /\ lastCall.op = "onHandResults"
    /\ lastCall.gesture = "open"
    /\ Actions(lastCall.fx) = <<>>
    /\ runActs = 1
    /\ sinceLastGesture > GestureDebounceTime

\* C7: a landmark frame triggers an action only if its gesture differs from
\* the remembered gesture, and the remembered gesture is the last acted-upon
\* one: a frame that triggers nothing leaves lastGesture as it was.
LandmarkFrameRan(c) == c.op = "onHandResults" /\ c.gesture # "none"
C7_RemembersActedGesture ==
    [][ LandmarkFrameRan(lastCall')
        => IF Actions(lastCall'.fx) # <<>>
           THEN lastCall'.gesture # lastGesture
           ELSE lastGesture' = lastGesture ]_vars

\* C8: a frame classified fist applies the spiral exactly once, at the hand
\* anchor of that frame, whatever lastGesture, the time since the last
\* action, the Gathered flag and the guard; any other frame applies none.
Spirals(fx) == SelectSeq(fx, LAMBDA c : c.call = "spiral")
C8_SpiralOnEveryFist ==
    lastCall.op = "onHandResults"
    => Spirals(lastCall.fx) =
          IF lastCall.gesture = "fist" THEN <<Fx("spiral", position)>> ELSE <<>>

\* A held fist, already remembered, gathered and mid-transition, within the
\* debounce time: the spiral is all the frame does.
C8_SpiralOnHeldFist ==
    /\ lastCall.op = "onHandResults"
    /\ lastCall.gesture = "fist"
    /\ lastCall.fx = <<Fx("spiral", position)>>
    /\ lastGesture = "fist"
    /\ isGathered
    /\ animating
    /\ sinceLastGesture <= GestureDebounceTime

\* C9 as stated: a wave without a state-change request is fired only by an
\* open hand while the configuration is Scattered.
WaveAlone(c) ==
    c.op = "onHandResults" /\ HasCall(c.fx, "wave") /\ ~HasCall(c.fx, "scatter")
C9_WaveAloneOnlyWhenScattered ==
    WaveAlone(lastCall) => (lastCall.gesture = "open" /\ ~isGathered)

\* C9 amended: a wave without a state-change request is fired only by an
\* open hand while the configuration is Scattered or a transition is still
\* running; every other gesture-triggered wave goes with a scatter request.
C9_WaveAloneScatteredOrAnimating ==
    /\ WaveAlone(lastCall) => (lastCall.gesture = "open" /\ (~isGathered \/ animating))
    /\ (lastCall.op = "onHandResults" /\ HasCall(lastCall.fx, "gather"))
          => ~HasCall(lastCall.fx, "wave")

\* An open hand during a gather: a wave, no request, the flag still Gathered.
C9_WaveAloneDuringGather ==
    /\ WaveAlone(lastCall)
    /\ isGathered
    /\ animating

\* C10: detectGesture classifies by the number of extended fingers, the
\* thumb extended iff |tip.x - wrist.x| > 0.1 and each other finger iff
\* tip.y < pip.y - 0.02 (both strict): 4 or more open, 1 or fewer fist,
\* partial otherwise.
ExtendedCount(lm) ==
    Cardinality({ k \in {8, 12, 16, 20} : lm[k].y < lm[k - 2].y - 2 })
    + IF lm[4].x - lm[0].x > 10 \/ lm[0].x - lm[4].x > 10 THEN 1 ELSE 0
C10_ClassifiedByCount ==
    probe.out # "none"
    => probe.out = CASE ExtendedCount(probe.lm) >= 4 -> "open"
                     [] ExtendedCount(probe.lm) <= 1 -> "fist"
                     [] OTHER -> "partial"

\* Three fingers raised, the fourth exactly 0.02 above its PIP joint and the
\* thumb exactly 0.1 from the wrist: three extended fingers, partial.
C10_BoundaryHandIsPartial ==
    /\ probe.out = "partial"
    /\ probe.lm[4].x - probe.lm[0].x = 10
    /\ probe.lm[8].y = 47 /\ probe.lm[12].y = 47 /\ probe.lm[16].y = 47
    /\ probe.lm[20].y = probe.lm[18].y - 2

\* C11: a frame with no hand is treated as the gesture none: after it the
\* recorded gesture is none, the remembered gesture is none (so that the
\* next fist counts as a change) and hand presence is false.
C11_NoHandIsNone ==
    lastCall = Call("onHandResults", "none", <<>>)
    => /\ gesture = "none"
       /\ lastGesture \in {"null", "none"}
       /\ ~detected

\* A snow operation ran in the step.
SnowRan(ops) == snowOps' = snowOps + 1 /\ snowCall'.op \in ops
Between(v, lo, hi) == ~v.nan /\ lo <= v.n /\ v.n <= hi
\* The squared distance from particle i to the origin o; positions that are
\* numbers only.
Placed(i) ==
    ~snowPositions[i].x.nan /\ ~snowPositions[i].y.nan /\ ~snowPositions[i].z.nan
Dist2(i, o) ==
    (snowPositions[i].x.n - o.x.n) * (snowPositions[i].x.n - o.x.n)
    + (snowPositions[i].y.n - o.y.n) * (snowPositions[i].y.n - o.y.n)
    + (snowPositions[i].z.n - o.z.n) * (snowPositions[i].z.n - o.z.n)

\* C12 as stated: a particle whose integrated height is below the floor ends
\* the step with height in [50, 80), x and z in [-50, 50), no horizontal
\* velocity and a fall velocity in [-0.08, -0.02]; after a step no particle
\* is below the floor.
C12_RespawnHalfOpen ==
    [][SnowRan({"step", "stepHand"})
       => /\ \A i \in Particles :
               fallen(integrated(snowPositions[i], snowVelocities[i]))
               => /\ Between(snowPositions'[i].y, RespawnBase,
                             RespawnBase + RespawnSpan - 1)
                  /\ Between(snowPositions'[i].x, -(FieldExtent \div 2),
                             FieldExtent \div 2 - 1)
                  /\ Between(snowPositions'[i].z, -(FieldExtent \div 2),
                             FieldExtent \div 2 - 1)
                  /\ snowVelocities'[i].x = Num(0)
                  /\ snowVelocities'[i].z = Num(0)
                  /\ Between(snowVelocities'[i].y, -(FallMin + FallSpan), -FallMin)
          /\ \A i \in Particles : ~fallen(snowPositions'[i])]_vars

\* C12 amended: the same with the bands closed: height in [50, 80], x and
\* z in [-50, 50], as the stored positions are rounded.
C12_RespawnClosed ==
    [][SnowRan({"step", "stepHand"})
       => /\ \A i \in Particles :
               fallen(integrated(snowPositions[i], snowVelocities[i]))
               => /\ Between(snowPositions'[i].y, RespawnBase,
                             RespawnBase + RespawnSpan)
                  /\ Between(snowPositions'[i].x, -(FieldExtent \div 2),
                             FieldExtent \div 2)
                  /\ Between(snowPositions'[i].z, -(FieldExtent \div 2),
                             FieldExtent \div 2)
                  /\ snowVelocities'[i].x = Num(0)
                  /\ snowVelocities'[i].z = Num(0)
                  /\ Between(snowVelocities'[i].y, -(FallMin + FallSpan), -FallMin)
          /\ \A i \in Particles : ~fallen(snowPositions'[i])]_vars

\* A step has respawned a particle at the very top of the band.
C12_RespawnedAtBandTop ==
    /\ snowCall.op \in {"step", "stepHand"}
    /\ \E i \in Particles :
         /\ snowPositions[i].y = Num(RespawnBase + RespawnSpan)
         /\ snowVelocities[i].x = Num(0)

\* The number of times particle i was drawn.
Drawn(picks, i) == Cardinality({ k \in 1 .. Len(picks) : picks[k] = i })
HalfWave == SnowWaveRadius \div 2
AtHalfWave(i, o) == Placed(i) /\ Dist2(i, o) = HalfWave * HalfWave
Numbers(v) == ~v.x.nan /\ ~v.y.nan /\ ~v.z.nan

\* C13 as stated: one wave call raises the vertical velocity of a particle
\* at distance waveRadius / 2 by the boost 0.3, once, and adds the
\* horizontal impulse 0.5 * (dx / d, dz / d), pointing away from the origin.
C13_WaveBoostsOnce ==
    [][SnowRan({"wave"})
       => \A i \in Particles :
            AtHalfWave(i, snowCall'.origin) /\ Numbers(snowVelocities[i])
            => /\ Numbers(snowVelocities'[i])
               /\ snowVelocities'[i].y.n = snowVelocities[i].y.n + WaveBoost
               /\ (snowVelocities'[i].x.n - snowVelocities[i].x.n) * HalfWave
                    = WaveForce * (snowPositions[i].x.n - snowCall'.origin.x.n)
               /\ (snowVelocities'[i].z.n - snowVelocities[i].z.n) * HalfWave
                    = WaveForce * (snowPositions[i].z.n - snowCall'.origin.z.n)]_vars

\* C13 amended: a wave call draws its particles at random, with repeats; a
\* particle at distance waveRadius / 2 drawn k times (k may be 0) gets the
\* boost and the outward impulse k times.
C13_WaveBoostsPerDraw ==
    [][SnowRan({"wave"})
       => \A i \in Particles :
            AtHalfWave(i, snowCall'.origin) /\ Numbers(snowVelocities[i])
            => /\ Numbers(snowVelocities'[i])
               /\ snowVelocities'[i].y.n
                    = snowVelocities[i].y.n + Drawn(snowCall'.picks, i) * WaveBoost
               /\ (snowVelocities'[i].x.n - snowVelocities[i].x.n) * HalfWave
                    = Drawn(snowCall'.picks, i) * WaveForce
                      * (snowPositions[i].x.n - snowCall'.origin.x.n)
               /\ (snowVelocities'[i].z.n - snowVelocities[i].z.n) * HalfWave
                    = Drawn(snowCall'.picks, i) * WaveForce
                      * (snowPositions[i].z.n - snowCall'.origin.z.n)]_vars

\* A wave drew twice a particle at distance waveRadius / 2, off both axes.
C13_HalfWaveParticleDrawnTwice ==
    /\ snowCall.op = "wave"
    /\ \E i \in Particles :
         /\ AtHalfWave(i, snowCall.origin)
         /\ Drawn(snowCall.picks, i) = 2
         /\ snowPositions[i].x.n < snowCall.origin.x.n
         /\ snowPositions[i].z.n > snowCall.origin.z.n
         /\ snowVelocities[i].x.n < 0
         /\ snowVelocities[i].z.n > 0

\* C14: wave and spiral change velocities only: they leave every position
\* as it was, and the velocity of every particle at distance >= waveRadius
\* (for spiral, >= spiralRadius) from the origin.
RadiusOf(op) == IF op = "wave" THEN SnowWaveRadius ELSE SnowSpiralRadius
C14_ImpulsesOnlyWithinRadius ==
    [][SnowRan({"wave", "spiral"})
       => /\ snowPositions' = snowPositions
          /\ \A i \in Particles :
               Placed(i)
               /\ Dist2(i, snowCall'.origin)
                    >= RadiusOf(snowCall'.op) * RadiusOf(snowCall'.op)
               => snowVelocities'[i] = snowVelocities[i]]_vars

\* A wave drew a particle that is exactly waveRadius from the origin.
C14_WaveDrewParticleOnRadius ==
    /\ snowCall.op = "wave"
    /\ \E i \in Particles :
         /\ Placed(i)
         /\ Dist2(i, snowCall.origin) = SnowWaveRadius * SnowWaveRadius
         /\ Drawn(snowCall.picks, i) > 0

\* C15: a particle exactly at the origin of the hand repulsion or of a wave
\* gets no force and keeps a finite velocity: no velocity is ever NaN.
C15_VelocitiesFinite ==
    \A i \in Particles : Numbers(snowVelocities[i])

\* C16: init with a configuration of which a count or a length is not
\* positive ends in an error before any particle is created; the value is
\* never accepted.
InvalidConfig(cfg) == \E k \in DOMAIN cfg : cfg[k] <= 0
C16_InvalidConfigFailsFast ==
    probe.out # Pending /\ InvalidConfig(probe.cfg)
    => /\ probe.out.result \notin {"ok", "pending"}
       /\ probe.out.ornaments = 0
       /\ probe.out.snow = 0

\* C17: every point calculateScatterPosition (or randomInSphere) returns
\* satisfies x*x + y*y + z*z <= radius*radius: the loop is left only on a
\* candidate inside the sphere.
C17_ReturnedPointInSphere ==
    probe.returned
    => probe.point.x * probe.point.x + probe.point.y * probe.point.y
       + probe.point.z * probe.point.z <= probe.radius * probe.radius

\* A second candidate, on the sphere itself, returned after a rejected one.
C17_SecondCandidateOnSphere ==
    /\ probe.returned
    /\ probe.tries = 2
    /\ probe.point = Vec(-probe.radius, 0, 0)

\* C18: for all 0 <= i <= j < total, calculateTreePosition(i).y <=
\* calculateTreePosition(j).y whatever is drawn, and every y is in
\* [-H/2, H/2): the height just computed is below no earlier one, and in
\* the band.
C18_HeightsNonDecreasing ==
    /\ \A i \in DOMAIN probe.ys : \A j \in DOMAIN probe.ys :
         i <= j /\ j = Len(probe.ys) => probe.ys[i] <= probe.ys[j]
    /\ \A i \in DOMAIN probe.ys :
         /\ -((probe.H * Unit) \div 2) <= probe.ys[i]
         /\ probe.ys[i] < (probe.H * Unit) \div 2

\* All the heights of the shipped total computed, the last off the axis.
C18_WholeTreePlaced ==
    /\ probe.total = OrnamentCount
    /\ Len(probe.ys) = OrnamentCount
    /\ probe.ys[1] = -((probe.H * Unit) \div 2)
    /\ probe.ys[1] < probe.ys[OrnamentCount]
    /\ probe.last.x # 0

\* The step starts a run of ornament tweens.
RunStarted == runs' # runs /\ runs' = Append(runs, runs'[Len(runs')])

\* C19: gather targets are fixed at creation: no step changes a
\* treePosition; a gather tweens to it and changes no scatterPosition (which
\* only the start of a scatter changes); every scatter that starts stores
\* the position it has drawn for every ornament and tweens toward that one.
C19_TargetsFixedScatterRedrawn ==
    [][ /\ treeDraw' = treeDraw
        /\ RunStarted /\ runs'[Len(runs')].toGathered
           => scatterDraw' = scatterDraw /\ runs'[Len(runs')].target = treeDraw
        /\ RunStarted /\ ~runs'[Len(runs')].toGathered
           => scatterDraw' \in Draws /\ runs'[Len(runs')].target = scatterDraw'
        /\ ~RunStarted => scatterDraw' = scatterDraw ]_vars

\* An accepted scatter has just started toward positions that are not the
\* ones createOrnaments drew, the gather targets being those of creation.
C19_ScatterTowardNewDraw ==
    /\ runs # <<>>
    /\ ~LastRun.toGathered
    /\ LastRun.guarded
    /\ LastRun.age = 0
    /\ LastRun.target = scatterDraw
    /\ scatterDraw # 1
    /\ treeDraw = 1

C21_HeldGestureActs ==
    /\ WF_vars(FistFrame) => []<>~(detected /\ gesture = "fist" /\ ~isGathered)
    /\ WF_vars(OpenFrame) => []<>~(detected /\ gesture = "open" /\ isGathered)

\* C22: the system starts scattered: after construction and with no input,
\* isGathered and the guard are false and the ribbon is hidden in every
\* state; before init every ornament is where createOrnaments put it, at
\* its scatter position; after init every ornament eventually rests at the
\* scatter position the initial scatter has drawn.
AllOrnamentsAt(where) == \A i \in Ornaments : ornamentAt(i) = where
C22_StartsScattered ==
    /\ [](~isGathered /\ ~animating /\ ~btnDisabled /\ ~ribbonVisible)
    /\ [](~loaded => AllOrnamentsAt("created") /\ runs = <<>>)
    /\ <>[](/\ loaded
            /\ AllOrnamentsAt("scatterPosition")
            /\ LastRun.target = scatterDraw)
C22_StartupScatterSettled ==
    /\ loaded
    /\ Len(runs) = 1
    /\ ~LastRun.guarded
    /\ RunDone(LastRun)
    /\ timers = {}
    /\ AllOrnamentsAt("scatterPosition")
    /\ ~isGathered /\ ~animating /\ ~ribbonVisible

\* A particle the step at hand moves without respawning it, and its squared
\* distance to the hand once moved.
Kept(i) ==
    /\ Numbers(snowVelocities[i])
    /\ Placed(i)'
    /\ ~fallen(integrated(snowPositions[i], snowVelocities[i]))
HandDist2(i) == Dist2(i, snowCall.origin)'
Unrepelled(i) ==
    \/ snowCall'.op = "step"
    \/ HandDist2(i) >= SnowInteractionRadius * SnowInteractionRadius
\* b is a * 0.98 on the grid: not larger, of the same sign, within half a
\* hundredth of the product.
Shrunk(a, b) ==
    /\ Abs(b) <= Abs(a)
    /\ a * b >= 0
    /\ 2 * Abs(Unit * b - Decay * a) <= Unit

HandImpulses(c, d2) ==
    LET d == sqrtRound(d2)
    IN { k \in -HandGain .. HandGain :
           /\ k * c >= 0
           /\ Abs(k * SnowInteractionRadius * d
                  - HandGain * (SnowInteractionRadius - d) * c)
                <= SnowInteractionRadius * d }
Offset(i, axis) == (snowPositions[i][axis].n - snowCall.origin[axis].n)'

\* C24: in a step, a particle that is not respawned keeps its vertical
\* velocity; without a hand, or at distance R or more from the hand once
\* moved, its horizontal velocity is only decayed; with a hand at a
\* distance d, 0 < d < R, its horizontal velocity is the decay of the old
\* one plus 0.2 * ((R - d) / R) * (dx / d, dz / d), which points away from
\* the hand; at distance 0 that quotient is 0 / 0.
C24_RepulsionWithinRadius ==
    [][SnowRan({"step", "stepHand"})
       => \A i \in Particles :
            Kept(i)
            => /\ snowVelocities'[i].y = snowVelocities[i].y
               /\ Unrepelled(i) => snowVelocities'[i] = decayed(snowVelocities[i])
               /\ ~Unrepelled(i) /\ HandDist2(i) > 0
                  => /\ Numbers(snowVelocities'[i])
                     /\ \E k \in HandImpulses(Offset(i, "x"), HandDist2(i)) :
                          snowVelocities'[i].x.n
                            = RoundDiv(Decay * (snowVelocities[i].x.n + k), Unit)
                     /\ \E k \in HandImpulses(Offset(i, "z"), HandDist2(i)) :
                          snowVelocities'[i].z.n
                            = RoundDiv(Decay * (snowVelocities[i].z.n + k), Unit)
               /\ ~Unrepelled(i) /\ HandDist2(i) = 0
                  => snowVelocities'[i].x.nan /\ snowVelocities'[i].z.nan]_vars

\* A step has pushed a particle inside the radius away from the hand.
C24_PushedAwayFromHand ==
    /\ snowCall.op = "stepHand"
    /\ snowOps = 1
    /\ \E i \in Particles :
         /\ Placed(i)
         /\ Numbers(snowVelocities[i])
         /\ Dist2(i, snowCall.origin) > 0
         /\ Dist2(i, snowCall.origin) < SnowInteractionRadius * SnowInteractionRadius
         /\ snowPositions[i].x.n < snowCall.origin.x.n
         /\ snowVelocities[i].x.n < 0

\* A particle a spiral acts on with a horizontal direction to turn: within
\* the radius, not on the vertical through the origin.
InSpiral(i) ==
    /\ Placed(i)
    /\ Numbers(snowVelocities[i])
    /\ Dist2(i, snowCall'.origin) < SnowSpiralRadius * SnowSpiralRadius
    /\ \/ snowPositions[i].x.n # snowCall'.origin.x.n
       \/ snowPositions[i].z.n # snowCall'.origin.z.n
\* The impulse of the step at hand along one axis, and its components along
\* the horizontal radial vector (dx, dz) and across it, both scaled by the
\* length of that vector.
Impulse(i, axis) == snowVelocities'[i][axis].n - snowVelocities[i][axis].n
Radial(i, axis) == snowPositions[i][axis].n - snowCall'.origin[axis].n
Outward(i) == Impulse(i, "x") * Radial(i, "x") + Impulse(i, "z") * Radial(i, "z")
Across(i) == Impulse(i, "z") * Radial(i, "x") - Impulse(i, "x") * Radial(i, "z")
\* The grid: each component of an impulse is within a hundredth and a half
\* of its value, so a product with (dx, dz) is within Slack of its own; all
\* scaled by the radius.
Slack(i) ==
    (3 * (Abs(Radial(i, "x")) + Abs(Radial(i, "z"))) * SnowSpiralRadius) \div 2
    + 10 * SnowSpiralRadius
\* 0.1 * (R - d) / R times the length of (dx, dz) times the share (cos 0.1
\* or sin 0.1, in hundredths), scaled by the radius.
SpiralShare(i, share) ==
    LET d == sqrtRound(Dist2(i, snowCall'.origin))
        h == sqrtRound(Radial(i, "x") * Radial(i, "x") + Radial(i, "z") * Radial(i, "z"))
    IN RoundDiv(SpiralGain * (SnowSpiralRadius - d) * h * share, Unit)
\* |impulse| is 0.1 * (R - d) / R within two hundredths.
SpiralMagnitude(i) ==
    LET d == sqrtRound(Dist2(i, snowCall'.origin))
        f == SpiralGain * (SnowSpiralRadius - d)
        m2 == (Impulse(i, "x") * Impulse(i, "x") + Impulse(i, "z") * Impulse(i, "z"))
              * SnowSpiralRadius * SnowSpiralRadius
    IN /\ m2 <= (f + 2 * SnowSpiralRadius) * (f + 2 * SnowSpiralRadius)
       /\ f > 2 * SnowSpiralRadius
          => m2 >= (f - 2 * SnowSpiralRadius) * (f - 2 * SnowSpiralRadius)

\* C25 as stated: the horizontal impulse of a spiral on a particle within
\* the radius is perpendicular to the horizontal radial vector (dx, dz), as
\* nearly as the grid allows, with magnitude
\* 0.1 * (spiralRadius - d) / spiralRadius.
C25_SpiralTangential ==
    [][SnowRan({"spiral"})
       => \A i \in Particles :
            InSpiral(i)
            => /\ Numbers(snowVelocities'[i])
               /\ Abs(Outward(i) * SnowSpiralRadius) <= Slack(i)
               /\ SpiralMagnitude(i)]_vars

\* C25: the horizontal impulse of a spiral on a particle within the radius
\* points along the radial vector (dx, dz) turned by 0.1 rad: its component
\* along the radial vector is cos 0.1 of its magnitude, outward, its
\* component across is sin 0.1 of it, in the turning direction, as nearly as
\* the grid allows, and its magnitude is
\* 0.1 * (spiralRadius - d) / spiralRadius.
C25_SpiralMostlyOutward ==
    [][SnowRan({"spiral"})
       => \A i \in Particles :
            InSpiral(i)
            => /\ Numbers(snowVelocities'[i])
               /\ Abs(Outward(i) * SnowSpiralRadius - SpiralShare(i, Cos01)) <= Slack(i)
               /\ Abs(Across(i) * SnowSpiralRadius - SpiralShare(i, Sin01)) <= Slack(i)
               /\ SpiralMagnitude(i)]_vars

\* A spiral has pushed a particle that was at rest horizontally, 3 and 4
\* units from the origin along x and z.
C25_SpiralPushedParticle ==
    /\ snowCall.op = "spiral"
    /\ snowOps = 1
    /\ \E i \in Particles :
         /\ Placed(i)
         /\ Numbers(snowVelocities[i])
         /\ snowPositions[i].x.n - snowCall.origin.x.n = -300
         /\ snowPositions[i].z.n - snowCall.origin.z.n = -400
         /\ snowVelocities[i].x.n < 0
         /\ snowVelocities[i].z.n < 0

\* C26: ribbon visibility follows the configuration: whenever the guard is
\* clear the ribbon is visible iff the tree is gathered; the step that
\* starts a gather does not show the ribbon yet; and in the step that clears
\* the guard the ribbon is already visible after a gather and already hidden
\* after a scatter.
C26_RibbonFollowsConfiguration ==
    /\ [](~animating => (ribbonVisible <=> isGathered))
    /\ [][RunStarted /\ LastRun'.toGathered
          => ~ribbonVisible /\ ~ribbonVisible']_vars
    /\ [][animating /\ ~animating'
          => /\ ribbonVisible <=> isGathered
             /\ ribbonVisible' = ribbonVisible
             /\ isGathered' = isGathered]_vars

\* The guard of a scatter has just cleared over a hidden ribbon.
C26_RibbonHiddenAfterScatter ==
    /\ lastCall.op = "clearGuard"
    /\ ~animating
    /\ ~isGathered
    /\ ~ribbonVisible
    /\ ribbonOpacity = 0
    /\ LastRun.guarded

GuardSpan(toGathered) ==
    (IF toGathered THEN RibbonShowDelayMs + RibbonFadeInMs ELSE RibbonHideMs)
    + AnimationDurationMs

\* C28: every accepted transition terminates: whenever the guard is set it
\* is eventually cleared; only the completion timer clears it, not before
\* the ribbon reveal (gather) or the ribbon hiding (scatter) plus
\* animationDuration have passed since the start, and no step takes a run
\* off while the guard is set.
C28_TransitionsTerminate ==
    /\ animating ~> ~animating
    /\ [][animating /\ ~animating'
          => /\ lastCall'.op = "clearGuard"
             /\ LastRun.guarded
             /\ LastRun.age >= Min(RunSpan, GuardSpan(LastRun.toGathered))
             /\ runs' = runs]_vars
    /\ [][animating /\ animating' => LastRun' = LastRun \/ LastRun'.age > LastRun.age]_vars

\* The guard of a scatter has cleared 2.1 s after the scatter started.
C28_ScatterGuardCleared ==
    /\ lastCall.op = "clearGuard"
    /\ ~animating
    /\ LastRun.guarded
    /\ ~LastRun.toGathered
    /\ LastRun.age >= GuardSpan(FALSE)
    /\ ~RunDone(LastRun)

\* C29: the toggle button is disabled exactly while the guard is set: the
\* two change in the same steps only, both set by an accepted
\* transitionState and both cleared by the completion timer, so a click
\* reaches toggleState only with the guard clear and its request is accepted.
C29_ButtonDisabledWhileAnimating ==
    /\ [](btnDisabled <=> animating)
    /\ [][animating' # animating
          => IF animating' THEN RunStarted /\ LastRun'.guarded
                           ELSE lastCall'.op = "clearGuard"]_vars
    /\ [][lastCall'.op = "toggleState"
          => ~animating /\ animating' /\ RunStarted]_vars

\* A click has just been accepted: the guard set, the button disabled.
C29_ClickAccepted ==
    /\ lastCall.op = "toggleState"
    /\ animating
    /\ btnDisabled
    /\ LastRun.age = 0

\* C30: whatever the interleaving of gesture callbacks, clicks, ticks and
\* timer callbacks, a gesture callback changes isGathered only in the step
\* in which it starts the transition to that configuration, with the guard
\* clear before and set after; and while the guard is set no step starts a
\* run or changes isGathered, so of two competing requests the second is
\* turned down.
C30_GestureFlagWithTransition ==
    /\ [][lastCall'.op = "onHandResults" /\ isGathered' # isGathered
          => /\ ~animating
             /\ animating'
             /\ RunStarted
             /\ LastRun'.guarded
             /\ LastRun'.toGathered = isGathered']_vars
    /\ [][animating => ~RunStarted /\ isGathered' = isGathered]_vars

\* A fist frame has just set the flag and started the gather.
C30_FistStartedGather ==
    /\ lastCall.op = "onHandResults"
    /\ lastCall.gesture = "fist"
    /\ HasCall(lastCall.fx, "gather")
    /\ isGathered
    /\ animating
    /\ LastRun.toGathered
    /\ LastRun.age = 0

====
